---- MODULE Spec2Model ----
(***************************************************************************)
(* GreenRoute AI backend (backend/main.py, backend/ml_engine.py,           *)
(* backend/rag_engine.py) as a state machine.                              *)
(*                                                                         *)
(* Numbers are fixed point: weather_risk in tenths, distance_km in tenths, *)
(* eta_mins in tenths, emissions / score / delay_probability (as stored    *)
(* in a RouteOption) in hundredths, a raw classifier probability in        *)
(* ten-thousandths.                                                        *)
(***************************************************************************)
EXTENDS Integers, Sequences, FiniteSets, TLC

VARIABLES
    sim_state,      \* main.py sim_state: the shared simulation dictionary
    simPc,          \* simulation_loop: position inside one update cycle
    simW,           \* simulation_loop local w (chosen weather pair)
    simT,           \* simulation_loop local t (chosen traffic pair)
    model,          \* ml_engine.model: the classifier held after train_model
    optPc,          \* optimize_route: position of the request being served
    optI,           \* generate_route_options: index of the route being processed
    optTf,          \* generate_route_options local tf
    processed,      \* generate_route_options local processed_routes
    options,        \* optimize_route local options (the sorted routes)
    explArgs,       \* get_rag_explanation call: the arguments evaluated so far
    resp,           \* <<body>> returned by the last completed /optimize, else <<>>
    respFailed,     \* history: a step of the request that produced resp raised
    windowStatus,   \* history: bodies GET /simulation/status returned since the
                    \* simulator last wrote sim_state
    pd,             \* main.py pd: whether the pandas import succeeded
    file,           \* data/vehicles.csv: whether it exists and its lines
    addPc,          \* add_vehicle: position of each request in flight
    addReq,         \* add_vehicle: the VehicleInput of each request in flight
    addExists,      \* add_vehicle local exists (os.path.exists result)
    addDf,          \* add_vehicle local df (lines about to be written)
    added,          \* history: vehicles add_vehicle reported success for
    adds,           \* history: number of add_vehicle requests started
    fleetResp,      \* <<body>> returned by the last GET /fleet, else <<>>
    fleetAdded,     \* history: value of added when that listing started
    fleetNoRows,    \* history: the file was missing or without rows at that listing
    mwPc,           \* middleware stack: position of the request in flight
    mwReq,          \* the HTTP request in flight
    mwWrapped,      \* CORSMiddleware: this request's send is wrapped
    mwResp          \* the response travelling outwards: status and headers

simVars == <<sim_state, simPc, simW, simT>>
optVars == <<optPc, optI, optTf, processed, options, explArgs, resp, respFailed>>
fleetVars == <<pd, file, addPc, addReq, addExists, addDf, added, adds,
               fleetResp, fleetAdded, fleetNoRows>>
mwVars == <<mwPc, mwReq, mwWrapped, mwResp>>
\* what a step of /optimize leaves alone
optFrame == <<sim_state, simPc, simW, simT, model, windowStatus, fleetVars, mwVars>>
vars == <<sim_state, simPc, simW, simT, model, optPc, optI, optTf, processed,
          options, explArgs, resp, respFailed, windowStatus,
          pd, file, addPc, addReq, addExists, addDf, added, adds,
          fleetResp, fleetAdded, fleetNoRows, mwPc, mwReq, mwWrapped, mwResp>>

-----------------------------------------------------------------------------
(* Simulation state and the environment simulator                          *)

\* main.py:101  weather_types, risk in tenths
weather_types == { <<"Clear", 1>>, <<"Rain", 6>>, <<"Stormy", 9>>, <<"Cloudy", 3>> }

\* main.py:102  traffic_types
traffic_types == { <<"Low", 2>>, <<"Moderate", 5>>, <<"High", 9>> }

\* main.py:63-68  the defaults the process starts with
InitialSimState ==
    [traffic_level |-> "Low", traffic_factor |-> 2,
     weather_condition |-> "Clear", weather_risk |-> 1]

NoPair == <<"", 0>>

\* main.py:106-107  w = random.choice(weather_types); t = random.choice(traffic_types)
SimPick ==
    /\ simPc = "sleep"
    /\ \E w \in weather_types, t \in traffic_types :
          /\ simW' = w
          /\ simT' = t
    /\ simPc' = "weather_condition"
    /\ UNCHANGED <<sim_state, windowStatus>>

\* main.py:109  sim_state["weather_condition"] = w[0]
SimWriteCondition ==
    /\ simPc = "weather_condition"
    /\ sim_state' = [sim_state EXCEPT !.weather_condition = simW[1]]
    /\ simPc' = "weather_risk"
    /\ windowStatus' = {}
    /\ UNCHANGED <<simW, simT>>

\* main.py:110  sim_state["weather_risk"] = w[1]
SimWriteRisk ==
    /\ simPc = "weather_risk"
    /\ sim_state' = [sim_state EXCEPT !.weather_risk = simW[2]]
    /\ simPc' = "traffic_level"
    /\ windowStatus' = {}
    /\ UNCHANGED <<simW, simT>>

\* main.py:111  sim_state["traffic_level"] = t[0]
SimWriteLevel ==
    /\ simPc = "traffic_level"
    /\ sim_state' = [sim_state EXCEPT !.traffic_level = simT[1]]
    /\ simPc' = "traffic_factor"
    /\ windowStatus' = {}
    /\ UNCHANGED <<simW, simT>>

\* main.py:112,116  sim_state["traffic_factor"] = t[1]; await asyncio.sleep(5)
SimWriteFactor ==
    /\ simPc = "traffic_factor"
    /\ sim_state' = [sim_state EXCEPT !.traffic_factor = simT[2]]
    /\ simPc' = "sleep"
    /\ simW' = NoPair
    /\ simT' = NoPair
    /\ windowStatus' = {}

\* main.py:99-116  one step of the background task
simulation_loop ==
    /\ \/ SimPick
       \/ SimWriteCondition
       \/ SimWriteRisk
       \/ SimWriteLevel
       \/ SimWriteFactor
    /\ UNCHANGED <<model, optVars, fleetVars, mwVars>>

\* main.py:104-116  one whole update cycle with no reader scheduled inside it.
\* Every reader of /optimize takes one field per step, and a cycle draws both
\* pairs afresh, so the values such a reader can get between two field writes
\* are values it can also get between two whole cycles.
SimCycle ==
    /\ simPc = "sleep"
    /\ \E w \in weather_types, t \in traffic_types :
          sim_state' = [weather_condition |-> w[1], weather_risk |-> w[2],
                        traffic_level |-> t[1], traffic_factor |-> t[2]]
    /\ windowStatus' = {}
    /\ UNCHANGED <<simPc, simW, simT, model, optVars, fleetVars, mwVars>>

-----------------------------------------------------------------------------
(* Delay-prediction engine (ml_engine.py)                                  *)

\* ml_engine.py:58,61,70  the constant returned when no prediction is possible
FallbackProbability == 5000

\* ml_engine.py:16-51  what train_model can leave in the global `model`:
\* nothing usable (libraries missing, both fits failed, or a classifier whose
\* predict_proba raises), or a fitted forest.  A fitted forest is an opaque
\* piecewise-constant function of its three features; the ones below split
\* once on one feature and answer lo below the split, hi from the split on.
Models ==
    { [kind |-> "none",   feature |-> "none",     at |-> 0,   lo |-> 0,    hi |-> 0],
      [kind |-> "forest", feature |-> "traffic",  at |-> 5,   lo |-> 5041, hi |-> 7541],
      [kind |-> "forest", feature |-> "distance", at |-> 200, lo |-> 7601, hi |-> 5051] }

\* ml_engine.py:53-70  predict_delay_probability, result in ten-thousandths
predict_delay_probability(distance, traffic, weather) ==
    IF model.kind = "none" THEN FallbackProbability
    ELSE LET x == CASE model.feature = "traffic"  -> traffic
                    [] model.feature = "weather"  -> weather
                    [] model.feature = "distance" -> distance
         IN  IF x >= model.at THEN model.hi ELSE model.lo

-----------------------------------------------------------------------------
(* Route generation and scoring (main.py generate_route_options)           *)

\* main.py:153-167  the two hard-coded candidates, distance in tenths of a km
routes ==
    << [id |-> "A", name |-> "I-78 Express", distance_km |-> 185, base_eta |-> 25,
        coords |-> <<"start", "a1", "a2", "end">>],
       [id |-> "B", name |-> "US-1 Truck Route", distance_km |-> 242, base_eta |-> 35,
        coords |-> <<"start", "b1", "b2", "b3", "end">>] >>

\* main.py:172  random.randint(-1, 1)
Jitter == {-1, 0, 1}

Max(a, b) == IF a >= b THEN a ELSE b

\* Python round() on a binary float whose exact decimal value is num/den units:
\* the nearest integer number of units.  When num/den lies exactly half way
\* the float carries a representation error and either neighbour can result.
RoundChoices(num, den) ==
    LET q == num \div den
        r == num % den
    IN  IF 2 * r < den THEN {q}
        ELSE IF 2 * r > den THEN {q + 1}
        ELSE {q, q + 1}

\* Python round() on a float that holds its value exactly: ties go to even.
RoundHalfEven(num, den) ==
    LET q == num \div den
        r == num % den
    IN  IF 2 * r < den THEN q
        ELSE IF 2 * r > den THEN q + 1
        ELSE IF q % 2 = 0 THEN q ELSE q + 1

\* Python round() where the direction at the half-way point is known
RoundKnown(num, den, down) ==
    LET q == num \div den
        r == num % den
    IN  IF 2 * r < den THEN q
        ELSE IF 2 * r > den THEN q + 1
        ELSE IF down THEN q ELSE q + 1

\* main.py:181,188  the (route, tf, wr) at which base_eta * (1 + tf/20) * (1 + wr)
\* is exactly half way between two tenths and its IEEE-754 double evaluation
\* ends below the half: round(adj_eta, 1) goes down there, up at the other ties.
EtaHalfDown ==
    { <<"A", 6, 3>>, <<"A", 10, 1>>, <<"A", 10, 9>>,
      <<"B", 2, 9>>, <<"B", 6, 3>>, <<"B", 10, 3>> }

\* main.py:182,193  the same for the score at delay_prob = 0.5: the (route, tf, wr)
\* whose score is exactly half way between two hundredths and evaluates below it.
ScoreHalfDown ==
    { <<"A", 3, 9>>, <<"A", 5, 1>>, <<"A", 5, 9>>, <<"A", 7, 1>>, <<"A", 7, 9>>,
      <<"A", 9, 1>>, <<"A", 9, 9>>, <<"B", 2, 1>>, <<"B", 2, 9>>, <<"B", 6, 1>>,
      <<"B", 6, 3>>, <<"B", 10, 3>> }

\* main.py:180,191  round(distance_km * max(1, tf) * 0.25, 2), in hundredths.
\* 18.5 * k * 0.25 is exact in binary; 24.2 * k * 0.25 never lies half way.
Emissions(r, tf) == RoundHalfEven(r.distance_km * Max(1, tf) * 5, 2)

\* main.py:181,188  round(base_eta * (1 + tf/20) * (1 + wr), 1), in tenths:
\* base_eta * (20 + tf) * (10 + wr10) / 200 minutes
EtaMins(r, tf, wr) ==
    RoundKnown(r.base_eta * (20 + tf) * (10 + wr), 20, <<r.id, tf, wr>> \in EtaHalfDown)

\* main.py:181-182 in units of 1/4000:
\*   0.5 * base_eta * (1 + tf/20) * (1 + wr) = 10 * base_eta * (20 + tf) * (10 + wr10) / 4000
\*   0.3 * distance_km * max(1, tf) * 0.25   = 30 * dist10 * max(1, tf) / 4000
\*   0.2 * delay_prob * 100                  = 8 * prob10000 / 4000
Score4000(r, tf, wr, prob) ==
    10 * r.base_eta * (20 + tf) * (10 + wr) + 30 * r.distance_km * Max(1, tf) + 8 * prob

\* main.py:182,193  round(score, 2), in hundredths
ScoreChoices(r, tf, wr, prob) ==
    IF prob = FallbackProbability
        THEN { RoundKnown(Score4000(r, tf, wr, prob), 40, <<r.id, tf, wr>> \in ScoreHalfDown) }
        ELSE RoundChoices(Score4000(r, tf, wr, prob), 40)

\* main.py:176-195  the RouteOption objects one loop iteration can append
RouteOptionsFor(r, tf, wr) ==
    LET delay_prob == predict_delay_probability(r.distance_km, tf, wr)
    IN  { [id |-> r.id,
           name |-> r.name,
           distance_km |-> r.distance_km,
           eta_mins |-> EtaMins(r, tf, wr),
           traffic_factor |-> Max(1, tf),
           weather_risk |-> wr,
           emissions |-> Emissions(r, tf),
           delay_probability |-> dp,
           score |-> sc,
           coordinates |-> r.coords] :
          dp \in RoundChoices(delay_prob, 100),
          sc \in ScoreChoices(r, tf, wr, delay_prob) }

\* The routes returned in the order they were built, A before B
SortedAsGiven(s) == s

\* main.py:197  sorted(processed_routes, key=lambda x: x.score): stable, ascending
RECURSIVE InsertByScore(_, _)
InsertByScore(o, s) ==
    IF s = <<>> THEN <<o>>
    ELSE IF o.score < Head(s).score THEN <<o>> \o s
    ELSE <<Head(s)>> \o InsertByScore(o, Tail(s))

RECURSIVE SortedByScore(_)
SortedByScore(s) ==
    IF s = <<>> THEN <<>>
    ELSE InsertByScore(s[Len(s)], SortedByScore(SubSeq(s, 1, Len(s) - 1)))

-----------------------------------------------------------------------------
(* GET /optimize (main.py optimize_route)                                  *)

\* The thresholds with >= in place of >
SelectActionInclusive(best) ==
    IF best.delay_probability >= 75 THEN "DELAY_DISPATCH"
    ELSE IF best.delay_probability >= 50 THEN "REROUTE"
    ELSE "PROCEED"

\* main.py:216-220
SelectAction(best) ==
    IF best.delay_probability > 75 THEN "DELAY_DISPATCH"
    ELSE IF best.delay_probability > 50 THEN "REROUTE"
    ELSE "PROCEED"

RECURSIVE MaxEmissions(_)
\* main.py:222  max(o.emissions for o in options)
MaxEmissions(s) ==
    IF Len(s) = 1 THEN s[1].emissions
    ELSE Max(s[1].emissions, MaxEmissions(Tail(s)))

\* The saving taken against the last (worst-scoring) route instead of the
\* route with the highest emissions
CarbonSavedAgainstLast(opts) == opts[Len(opts)].emissions - opts[1].emissions

\* main.py:222-223
CarbonSaved(opts) == MaxEmissions(opts) - opts[1].emissions

\* main.py:233-241
OptimizationResponse(opts) ==
    [recommended_route |-> opts[1],
     alternatives |-> Tail(opts),
     action |-> SelectAction(opts[1]),
     customer_message |-> "message",
     carbon_saved |-> CarbonSaved(opts),
     ai_explanation |-> "explanation",
     timestamp |-> "Now"]

\* main.py:245-256
ErrorResponse ==
    [recommended_route |->
        [id |-> "ERR", name |-> "Error", distance_km |-> 0, eta_mins |-> 0,
         traffic_factor |-> 0, weather_risk |-> 0, emissions |-> 0,
         delay_probability |-> 0, score |-> 0, coordinates |-> <<>>],
     alternatives |-> <<>>,
     action |-> "ERROR",
     customer_message |-> "System Error",
     carbon_saved |-> 0,
     ai_explanation |-> "Error",
     timestamp |-> "Error"]

NoArgs == [weather |-> 0, traffic |-> 0]

\* main.py:230  get_rag_explanation(route_dict, sim_state["weather_risk"],
\* sim_state["traffic_factor"]) as it is called when the request stands at
\* "explain": the weather argument was evaluated first, the traffic one is now
ExplanationCall ==
    [route |-> options[1].name,
     weather |-> explArgs.weather,
     traffic |-> sim_state.traffic_factor]

\* main.py:210-212  a request enters the try block and generate_route_options
OptStart ==
    /\ optPc = "idle"
    /\ optPc' = "traffic"
    /\ optI' = 1
    /\ processed' = <<>>
    /\ explArgs' = NoArgs
    /\ resp' = <<>>
    /\ respFailed' = FALSE
    /\ UNCHANGED <<optTf, options>>
    /\ UNCHANGED optFrame

\* The jitter applied to the shared dictionary instead of to a local
OptReadTrafficInPlace ==
    /\ optPc = "traffic"
    /\ \E j \in Jitter :
          /\ sim_state' = [sim_state EXCEPT !.traffic_factor = @ + j]
          /\ optTf' = sim_state.traffic_factor + j
    /\ optPc' = "weather"
    /\ UNCHANGED <<optI, processed, options, explArgs, resp, respFailed>>
    /\ UNCHANGED <<simPc, simW, simT, model, windowStatus, fleetVars, mwVars>>

\* main.py:172  tf = sim_state["traffic_factor"] + random.randint(-1, 1)
OptReadTraffic ==
    /\ optPc = "traffic"
    /\ \E j \in Jitter : optTf' = sim_state.traffic_factor + j
    /\ optPc' = "weather"
    /\ UNCHANGED <<optI, processed, options, explArgs, resp, respFailed>>
    /\ UNCHANGED optFrame

\* main.py:173-195  wr = sim_state["weather_risk"], then the route is scored
OptScoreRoute ==
    /\ optPc = "weather"
    /\ \E o \in RouteOptionsFor(routes[optI], optTf, sim_state.weather_risk) :
          processed' = Append(processed, o)
    /\ IF optI = Len(routes)
          THEN optPc' = "select" /\ optI' = 0
          ELSE optPc' = "traffic" /\ optI' = optI + 1
    /\ optTf' = 0
    /\ UNCHANGED <<options, explArgs, resp, respFailed>>
    /\ UNCHANGED optFrame

\* main.py:197,212-230  the routes are sorted, best/alts/action/saved follow
\* from options, and the first argument of the get_rag_explanation call,
\* sim_state["weather_risk"], is evaluated
OptSelect ==
    /\ optPc = "select"
    /\ options' = SortedByScore(processed)
    /\ processed' = <<>>
    /\ explArgs' = [weather |-> sim_state.weather_risk, traffic |-> 0]
    /\ optPc' = "explain"
    /\ UNCHANGED <<optI, optTf, resp, respFailed>>
    /\ UNCHANGED optFrame

\* main.py:230-241  sim_state["traffic_factor"] is evaluated, which completes
\* ExplanationCall; the explanation and the customer message are produced and
\* the response is returned
OptExplain ==
    /\ optPc = "explain"
    /\ explArgs' = NoArgs
    /\ resp' = <<OptimizationResponse(options)>>
    /\ respFailed' = FALSE
    /\ options' = <<>>
    /\ optPc' = "idle"
    /\ UNCHANGED <<optI, optTf, processed>>
    /\ UNCHANGED optFrame

\* The exception leaving the handler instead of being turned into a body
OptRaisePropagates ==
    /\ optPc \in {"traffic", "weather", "select", "explain"}
    /\ resp' = <<>>
    /\ respFailed' = TRUE
    /\ explArgs' = NoArgs
    /\ processed' = <<>>
    /\ options' = <<>>
    /\ optI' = 0
    /\ optTf' = 0
    /\ optPc' = "idle"
    /\ UNCHANGED optFrame

\* main.py:242-256  a call inside the try block raises (generate_route_options
\* while it builds or sorts the routes, get_rag_explanation, get_customer_message)
OptRaise ==
    /\ optPc \in {"traffic", "weather", "select", "explain"}
    /\ resp' = <<ErrorResponse>>
    /\ respFailed' = TRUE
    /\ explArgs' = NoArgs
    /\ processed' = <<>>
    /\ options' = <<>>
    /\ optI' = 0
    /\ optTf' = 0
    /\ optPc' = "idle"
    /\ UNCHANGED optFrame

\* main.py:209-256
optimize_route ==
    \/ OptStart
    \/ OptReadTraffic
    \/ OptScoreRoute
    \/ OptSelect
    \/ OptExplain
    \/ OptRaise

-----------------------------------------------------------------------------
(* The other read-only endpoints                                           *)

\* The dictionary copied by the handler's own thread, at any moment
get_simulation_status_in_thread ==
    /\ windowStatus' = windowStatus \cup {sim_state}
    /\ UNCHANGED <<simVars, model, optVars, fleetVars, mwVars>>

\* main.py:205-207  the handler returns the dictionary itself; its fields are
\* read when the response is encoded, which happens on the event loop, where
\* simulation_loop runs its four assignments without an await between them.
get_simulation_status ==
    /\ simPc = "sleep"
    /\ windowStatus' = windowStatus \cup {sim_state}
    /\ UNCHANGED <<simVars, model, optVars, fleetVars, mwVars>>

\* main.py:201-203  a constant body; no state is read or written
health_check == UNCHANGED vars

\* main.py:350-353  the answer comes from get_voice_answer; no state of this
\* process is read or written
voice_endpoint == UNCHANGED vars

-----------------------------------------------------------------------------
(* The vehicle store: data/vehicles.csv, /fleet and /fleet/add             *)

\* what a step of /fleet or /fleet/add leaves alone
fleetFrame == <<simVars, model, optVars, windowStatus, mwVars>>

MaxAdds == 2

\* request bodies of POST /fleet/add (main.py:92-96 VehicleInput)
VehicleInputs ==
    { [vehicle_id |-> "V-100", type |-> "Truck", capacity |-> 20, status |-> "Active"],
      [vehicle_id |-> "V-200", type |-> "Van",   capacity |-> 8,  status |-> "Idle"] }

\* str(capacity) as csv.DictWriter and DataFrame.to_csv write it
CapText(c) ==
    CASE c = 8  -> "8"
      [] c = 20 -> "20"
      [] c = 50 -> "50"
      [] OTHER  -> "0"

\* text that read_csv parses as an integer
IsIntText(t) == t \in {"0", "8", "20", "50"}

\* a value of a JSON body: a number or a string, with its text
JsonNumber(t) == [type |-> "number", text |-> t]
JsonString(t) == [type |-> "string", text |-> t]

\* main.py:338  fieldnames, the header line of the file
HeaderLine ==
    [vehicle_id |-> "vehicle_id", type |-> "type",
     capacity |-> "capacity", status |-> "status"]

\* main.py:315-320, 342  new_row as a line of text fields
RowLine(v) ==
    [vehicle_id |-> v.vehicle_id, type |-> v.type,
     capacity |-> CapText(v.capacity), status |-> v.status]

\* the files the server can find at data/vehicles.csv when it starts:
\* none, a zero-byte file, a header without rows, a header and one row
InitialFiles ==
    { [exists |-> FALSE, lines |-> <<>>],
      [exists |-> TRUE,  lines |-> <<>>],
      [exists |-> TRUE,  lines |-> <<HeaderLine>>],
      [exists |-> TRUE,  lines |-> <<HeaderLine,
           [vehicle_id |-> "V-001", type |-> "Bike", capacity |-> "8", status |-> "Active"]>>] }

\* main.py:267-271  read_csv, fillna, to_dict: the first line names the
\* columns, a column of integers becomes numbers, any other column strings
PandasRecords(lines) ==
    LET rows == Tail(lines)
        ints == \A i \in 1..Len(rows) : IsIntText(rows[i].capacity)
    IN  [i \in 1..Len(rows) |->
            [vehicle_id |-> JsonString(rows[i].vehicle_id),
             type       |-> JsonString(rows[i].type),
             capacity   |-> IF ints THEN JsonNumber(rows[i].capacity)
                                    ELSE JsonString(rows[i].capacity),
             status     |-> JsonString(rows[i].status)]]

\* main.py:276-281  csv.DictReader: the first line names the columns and every
\* value of every later line is a string
DictReaderRecords(lines) ==
    IF lines = <<>> THEN <<>>
    ELSE LET rows == Tail(lines)
         IN  [i \in 1..Len(rows) |->
                 [vehicle_id |-> JsonString(rows[i].vehicle_id),
                  type       |-> JsonString(rows[i].type),
                  capacity   |-> JsonString(rows[i].capacity),
                  status     |-> JsonString(rows[i].status)]]

\* main.py:285-287
MockVehicles ==
    << [vehicle_id |-> JsonString("V-MOCK-1"), type |-> JsonString("Mock Van"),
        capacity |-> JsonNumber("50"), status |-> JsonString("Active")] >>

\* main.py:290
orders == <<"ORD-991", "ORD-992", "ORD-993", "ORD-994", "ORD-995">>

\* main.py:291-301  the orders vehicle k of n receives: orders k, k+n, k+2n, ...
AssignedOrders(k, n) ==
    LET count == Cardinality({i \in 1..Len(orders) : (i - 1) % n = k - 1})
    IN  [j \in 1..count |-> orders[k + (j - 1) * n]]

\* main.py:291-301  a vehicle no order reaches gets no assigned_orders key
Assign(vehicles) ==
    LET n == Len(vehicles)
    IN  [k \in 1..n |->
            IF k <= Len(orders)
            THEN [vehicle_id |-> vehicles[k].vehicle_id, type |-> vehicles[k].type,
                  capacity |-> vehicles[k].capacity, status |-> vehicles[k].status,
                  assigned_orders |-> AssignedOrders(k, n)]
            ELSE vehicles[k]]

\* main.py:304-307  the body returned when the listing raises; pandas raises
\* EmptyDataError on a file without a first line
FleetErrorBody ==
    << [vehicle_id |-> JsonString("Error"),
        type |-> JsonString("No columns to parse from file"),
        capacity |-> JsonNumber("0"), status |-> JsonString("Error"),
        assigned_orders |-> <<>>] >>

\* main.py:264-307  the body of GET /fleet for a given state of the file
FleetBody(f) ==
    IF pd /\ f.exists /\ f.lines = <<>> THEN FleetErrorBody
    ELSE LET vehicles == IF pd /\ f.exists THEN PandasRecords(f.lines)
                         ELSE IF f.exists THEN DictReaderRecords(f.lines)
                         ELSE <<>>
         IN  Assign(IF vehicles = <<>> THEN MockVehicles ELSE vehicles)

\* main.py:258-307
get_fleet_assignments ==
    /\ fleetResp' = <<FleetBody(file)>>
    /\ fleetAdded' = added
    /\ fleetNoRows' = (~file.exists \/ Len(file.lines) <= 1)
    /\ UNCHANGED <<pd, file, addPc, addReq, addExists, addDf, added, adds>>
    /\ UNCHANGED fleetFrame

\* main.py:310-320  a request arrives and new_row is built
AddStart ==
    /\ adds < MaxAdds
    /\ \E v \in VehicleInputs :
          /\ addReq' = Append(addReq, v)
          /\ addPc' = Append(addPc, "check")
          /\ addExists' = Append(addExists, FALSE)
          /\ addDf' = Append(addDf, <<>>)
    /\ adds' = adds + 1
    /\ UNCHANGED <<pd, file, added, fleetResp, fleetAdded, fleetNoRows>>
    /\ UNCHANGED fleetFrame

\* main.py:325 (pandas), 336 (csv)  os.path.exists(path)
AddCheck(i) ==
    /\ addPc[i] = "check"
    /\ addExists' = [addExists EXCEPT ![i] = file.exists]
    /\ addPc' = [addPc EXCEPT ![i] = IF pd THEN "read" ELSE "open"]
    /\ UNCHANGED <<pd, file, addReq, addDf, added, adds, fleetResp, fleetAdded, fleetNoRows>>
    /\ UNCHANGED fleetFrame

\* main.py:327, 331  pd.DataFrame([new_row]): capacity is an int
NewFrame(v) ==
    << [vehicle_id |-> JsonString(v.vehicle_id), type |-> JsonString(v.type),
        capacity |-> JsonNumber(CapText(v.capacity)), status |-> JsonString(v.status)] >>

\* main.py:329, 332  to_csv(path, index=False): the header, then a line per row
CsvLines(df) ==
    <<HeaderLine>> \o
    [i \in 1..Len(df) |->
        [vehicle_id |-> df[i].vehicle_id.text, type |-> df[i].type.text,
         capacity |-> df[i].capacity.text, status |-> df[i].status.text]]

\* main.py:326-328, 331  df = the rows read_csv finds now, then new_row; a
\* file without a first line raises and the request ends at line 348
AddRead(i) ==
    /\ addPc[i] = "read"
    /\ IF addExists[i] /\ file.lines = <<>>
       THEN /\ addPc' = [addPc EXCEPT ![i] = "failed"]
            /\ UNCHANGED addDf
       ELSE /\ addDf' = [addDf EXCEPT ![i] =
                            (IF addExists[i] THEN PandasRecords(file.lines) ELSE <<>>)
                                \o NewFrame(addReq[i])]
            /\ addPc' = [addPc EXCEPT ![i] = "truncate"]
    /\ UNCHANGED <<pd, file, addReq, addExists, added, adds, fleetResp, fleetAdded, fleetNoRows>>
    /\ UNCHANGED fleetFrame

\* main.py:329, 332  to_csv opens the path for writing, which empties it
AddTruncate(i) ==
    /\ addPc[i] = "truncate"
    /\ file' = [exists |-> TRUE, lines |-> <<>>]
    /\ addPc' = [addPc EXCEPT ![i] = "flush"]
    /\ UNCHANGED <<pd, addReq, addExists, addDf, added, adds, fleetResp, fleetAdded, fleetNoRows>>
    /\ UNCHANGED fleetFrame

\* main.py:329, 332, 344  to_csv writes df and closes; success is returned
AddFlush(i) ==
    /\ addPc[i] = "flush"
    /\ file' = [exists |-> TRUE, lines |-> CsvLines(addDf[i])]
    /\ added' = added \cup {addReq[i]}
    /\ addPc' = [addPc EXCEPT ![i] = "done"]
    /\ addDf' = [addDf EXCEPT ![i] = <<>>]
    /\ UNCHANGED <<pd, addReq, addExists, adds, fleetResp, fleetAdded, fleetNoRows>>
    /\ UNCHANGED fleetFrame

\* main.py:337  open(path, "a") creates the file when it is missing
AddOpen(i) ==
    /\ addPc[i] = "open"
    /\ file' = [file EXCEPT !.exists = TRUE]
    /\ addPc' = [addPc EXCEPT ![i] = "append"]
    /\ UNCHANGED <<pd, addReq, addExists, addDf, added, adds, fleetResp, fleetAdded, fleetNoRows>>
    /\ UNCHANGED fleetFrame

\* main.py:338-344  the header if the file did not exist at line 336, then the
\* row, appended when the file is closed; success is returned
AddAppend(i) ==
    /\ addPc[i] = "append"
    /\ file' = [file EXCEPT !.lines =
                   @ \o (IF addExists[i] THEN <<>> ELSE <<HeaderLine>>)
                     \o <<RowLine(addReq[i])>>]
    /\ added' = added \cup {addReq[i]}
    /\ addPc' = [addPc EXCEPT ![i] = "done"]
    /\ UNCHANGED <<pd, addReq, addExists, addDf, adds, fleetResp, fleetAdded, fleetNoRows>>
    /\ UNCHANGED fleetFrame

\* main.py:309-348
add_vehicle ==
    \/ AddStart
    \/ \E i \in 1..adds : AddCheck(i)
    \/ \E i \in 1..adds : AddRead(i)
    \/ \E i \in 1..adds : AddTruncate(i)
    \/ \E i \in 1..adds : AddFlush(i)
    \/ \E i \in 1..adds : AddOpen(i)
    \/ \E i \in 1..adds : AddAppend(i)

-----------------------------------------------------------------------------
(* The middleware stack: CORSMiddleware outside add_process_time_header    *)

\* what a step of the middleware stack leaves alone
mwFrame == <<simVars, model, optVars, windowStatus, fleetVars>>

\* main.py:201, 205, 209, 258, 309, 350  the routes of the application
Routes ==
    { <<"GET", "/">>, <<"GET", "/simulation/status">>, <<"GET", "/optimize">>,
      <<"GET", "/fleet">>, <<"POST", "/fleet/add">>, <<"GET", "/voice">> }

\* requests a client can send: origin is whether an Origin header is present,
\* preflight whether an Access-Control-Request-Method header is
Requests ==
    [method : {"GET", "POST", "OPTIONS"},
     path : {r[2] : r \in Routes} \cup {"/unknown"},
     origin : BOOLEAN,
     preflight : BOOLEAN]

\* no request in flight, no response built yet
NoRequest == [method |-> "", path |-> "", origin |-> FALSE, preflight |-> FALSE]
NoHttpResponse == [status |-> 0, headers |-> {}, from |-> ""]

PrivateNetworkHeader == <<"access-control-allow-private-network", "true">>

\* main.py:54-60  what CORSMiddleware adds to a response of the application
SimpleCorsHeaders ==
    { <<"access-control-allow-origin", "*">>,
      <<"access-control-allow-credentials", "true">> }

\* main.py:54-60  the headers of the response CORSMiddleware builds itself
\* for a preflight request
PreflightCorsHeaders ==
    { <<"access-control-allow-origin", "request origin">>,
      <<"access-control-allow-credentials", "true">>,
      <<"access-control-allow-methods", "DELETE, GET, HEAD, OPTIONS, PATCH, POST, PUT">>,
      <<"access-control-max-age", "600">>,
      <<"vary", "Origin">> }

\* a request enters the stack
MwReceive ==
    /\ mwPc \in {"idle", "sent"}
    /\ \E r \in Requests : mwReq' = r
    /\ mwWrapped' = FALSE
    /\ mwResp' = NoHttpResponse
    /\ mwPc' = "cors"
    /\ UNCHANGED mwFrame

\* main.py:53-60  CORSMiddleware, added last, is first on the request: without
\* an Origin header it passes the request on, a preflight request it answers
\* itself, any other request it passes on with its own send wrapper
CorsDispatch ==
    /\ mwPc = "cors"
    /\ IF ~mwReq.origin
       THEN /\ mwPc' = "wrapper"
            /\ UNCHANGED <<mwWrapped, mwResp>>
       ELSE IF mwReq.method = "OPTIONS" /\ mwReq.preflight
       THEN /\ mwResp' = [status |-> 200, headers |-> PreflightCorsHeaders, from |-> "cors"]
            /\ mwPc' = "sent"
            /\ UNCHANGED mwWrapped
       ELSE /\ mwWrapped' = TRUE
            /\ mwPc' = "wrapper"
            /\ UNCHANGED mwResp
    /\ UNCHANGED mwReq
    /\ UNCHANGED mwFrame

\* main.py:41-43  add_process_time_header awaits call_next(request)
WrapperCallNext ==
    /\ mwPc = "wrapper"
    /\ mwPc' = "app"
    /\ UNCHANGED <<mwReq, mwWrapped, mwResp>>
    /\ UNCHANGED mwFrame

\* main.py:43  call_next returns the response of the application: of the
\* route's handler, or 404 / 405 when no route matches
AppReturn ==
    /\ mwPc = "app"
    /\ mwResp' = [status |-> IF <<mwReq.method, mwReq.path>> \in Routes THEN 200
                             ELSE IF mwReq.path \in {r[2] : r \in Routes} THEN 405
                             ELSE 404,
                  headers |-> {}, from |-> "app"]
    /\ mwPc' = "wrapper_return"
    /\ UNCHANGED <<mwReq, mwWrapped>>
    /\ UNCHANGED mwFrame

\* main.py:43, 47  call_next raises: the route's handler, or the encoding of
\* what it returned, raised
AppRaise ==
    /\ mwPc = "app"
    /\ <<mwReq.method, mwReq.path>> \in Routes
    /\ mwPc' = "wrapper_except"
    /\ UNCHANGED <<mwReq, mwWrapped, mwResp>>
    /\ UNCHANGED mwFrame

\* main.py:45-46
WrapperReturn ==
    /\ mwPc = "wrapper_return"
    /\ mwResp' = [mwResp EXCEPT !.headers = @ \cup {PrivateNetworkHeader}]
    /\ mwPc' = "cors_send"
    /\ UNCHANGED <<mwReq, mwWrapped>>
    /\ UNCHANGED mwFrame

\* main.py:47-50  a new Response with status 500 and no header set on it
WrapperExcept ==
    /\ mwPc = "wrapper_except"
    /\ mwResp' = [status |-> 500, headers |-> {}, from |-> "wrapper"]
    /\ mwPc' = "cors_send"
    /\ UNCHANGED <<mwReq, mwWrapped>>
    /\ UNCHANGED mwFrame

\* main.py:54-60  the response passes CORSMiddleware on its way out
CorsSend ==
    /\ mwPc = "cors_send"
    /\ mwResp' = [mwResp EXCEPT !.headers =
                     IF mwWrapped THEN @ \cup SimpleCorsHeaders ELSE @]
    /\ mwPc' = "sent"
    /\ UNCHANGED <<mwReq, mwWrapped>>
    /\ UNCHANGED mwFrame

\* main.py:40-60
add_process_time_header ==
    \/ MwReceive
    \/ CorsDispatch
    \/ WrapperCallNext
    \/ AppReturn
    \/ AppRaise
    \/ WrapperReturn
    \/ WrapperExcept
    \/ CorsSend

-----------------------------------------------------------------------------
(* Initial states and specifications                                       *)

\* main.py:63-68, 118-145  module load and startup_event: the defaults, then
\* train_model leaves some classifier (or none) in ml_engine.model
ServerInit ==
    /\ sim_state = InitialSimState
    /\ simPc = "sleep"
    /\ simW = NoPair
    /\ simT = NoPair
    /\ model \in Models
    /\ optPc = "idle"
    /\ optI = 0
    /\ optTf = 0
    /\ processed = <<>>
    /\ options = <<>>
    /\ explArgs = NoArgs
    /\ resp = <<>>
    /\ respFailed = FALSE
    /\ windowStatus = {}

NoFleetRequests ==
    /\ addPc = <<>>
    /\ addReq = <<>>
    /\ addExists = <<>>
    /\ addDf = <<>>
    /\ added = {}
    /\ adds = 0
    /\ fleetResp = <<>>
    /\ fleetAdded = {}
    /\ fleetNoRows = FALSE

\* main.py:14-18, 134-138  pandas imported, no vehicles file yet
FleetIdle ==
    /\ pd = TRUE
    /\ file = [exists |-> FALSE, lines |-> <<>>]
    /\ NoFleetRequests

MiddlewareIdle ==
    /\ mwPc = "idle"
    /\ mwReq = NoRequest
    /\ mwWrapped = FALSE
    /\ mwResp = NoHttpResponse

Init == ServerInit /\ FleetIdle /\ MiddlewareIdle

\* The optimiser, the status endpoint and the simulator, one cycle per step
Next ==
    \/ SimCycle
    \/ optimize_route
    \/ get_simulation_status
    \/ health_check
    \/ voice_endpoint

Spec == Init /\ [][Next]_vars

\* The status endpoint against the simulator taken one assignment at a time
NextSim ==
    \/ simulation_loop
    \/ get_simulation_status
    \/ health_check
    \/ voice_endpoint

SpecSim == Init /\ [][NextSim]_vars

\* The vehicle store alone: with or without pandas, over each initial file
InitFleet ==
    /\ ServerInit
    /\ model.kind = "none"
    /\ pd \in BOOLEAN
    /\ file \in InitialFiles
    /\ NoFleetRequests
    /\ MiddlewareIdle

NextFleet ==
    \/ get_fleet_assignments
    \/ add_vehicle

SpecFleet == InitFleet /\ [][NextFleet]_vars

\* The middleware stack alone
InitMiddleware ==
    /\ ServerInit
    /\ model.kind = "none"
    /\ FleetIdle
    /\ MiddlewareIdle

SpecMiddleware == InitMiddleware /\ [][add_process_time_header]_vars

-----------------------------------------------------------------------------
(* Claims about /optimize, checked under Spec                              *)

Completed == resp # <<>>
Succeeded == resp # <<>> /\ ~respFailed

\* C1: a request in which a step raised still ends with a body, the body is
\* the error sentinel (route "ERR", every number zero, no coordinates, no
\* alternatives, action "ERROR", carbon_saved 0), and no other body has
\* action "ERROR".
C1_ErrorSentinel ==
    /\ respFailed =>
          /\ Completed
          /\ resp[1].recommended_route.id = "ERR"
          /\ resp[1].recommended_route.distance_km = 0
          /\ resp[1].recommended_route.eta_mins = 0
          /\ resp[1].recommended_route.traffic_factor = 0
          /\ resp[1].recommended_route.weather_risk = 0
          /\ resp[1].recommended_route.emissions = 0
          /\ resp[1].recommended_route.delay_probability = 0
          /\ resp[1].recommended_route.score = 0
          /\ resp[1].recommended_route.coordinates = <<>>
          /\ resp[1].alternatives = <<>>
          /\ resp[1].action = "ERROR"
          /\ resp[1].carbon_saved = 0
    /\ Completed /\ resp[1].action = "ERROR" => respFailed

C1_Witness == respFailed /\ Completed /\ resp[1].action = "ERROR"

C3_ActionThresholds ==
    Succeeded =>
        LET p == resp[1].recommended_route.delay_probability
            a == resp[1].action
        IN  /\ (a = "DELAY_DISPATCH") <=> (p > 75)
            /\ (a = "REROUTE") <=> (50 < p /\ p <= 75)
            /\ (a = "PROCEED") <=> (p <= 50)

\* the boundary value 0.75 is returned with REROUTE
C3_Witness ==
    /\ Succeeded
    /\ resp[1].recommended_route.delay_probability = 75
    /\ resp[1].action = "REROUTE"

\* C4: carbon_saved is the highest emissions among the returned routes minus
\* the recommended route's emissions, and it is never negative.
C4_CarbonSaved ==
    /\ Completed => resp[1].carbon_saved >= 0
    /\ Succeeded =>
          resp[1].carbon_saved =
              Max(resp[1].recommended_route.emissions, resp[1].alternatives[1].emissions)
                  - resp[1].recommended_route.emissions

\* the recommended route is the one with the higher emissions
C4_Witness ==
    /\ Succeeded
    /\ resp[1].recommended_route.emissions > resp[1].alternatives[1].emissions

Abs(x) == IF x >= 0 THEN x ELSE -x

\* C10: one snapshot of the simulation state serves a whole request: the two
\* returned routes carry the same weather_risk, both traffic factors are within
\* 1 of one ambient traffic factor, and the weather risk and traffic factor
\* handed to get_rag_explanation are the ones the routes were scored with.
C10_SingleSnapshot ==
    /\ Succeeded =>
          /\ resp[1].recommended_route.weather_risk = resp[1].alternatives[1].weather_risk
          /\ \E t \in {2, 5, 9} :
                /\ Abs(resp[1].recommended_route.traffic_factor - t) <= 1
                /\ Abs(resp[1].alternatives[1].traffic_factor - t) <= 1
    /\ optPc = "explain" =>
          \A i \in 1..Len(options) :
              /\ options[i].weather_risk = ExplanationCall.weather
              /\ Abs(options[i].traffic_factor - ExplanationCall.traffic) <= 1

-----------------------------------------------------------------------------
(* Claims about the simulation state                                       *)

C6_StatusStable == Cardinality(windowStatus) <= 1

\* a status body of the current window while an /optimize request has read
\* the state and is about to read it again
C6_Witness == windowStatus # {} /\ optPc = "explain"

-----------------------------------------------------------------------------
(* Claims about the vehicle store, checked under SpecFleet                 *)

\* C7: every vehicle add_vehicle had reported success for when a /fleet
\* listing started is in that listing, with its vehicle_id, type, capacity and
\* status.
C7_AddedListed ==
    fleetResp # <<>> =>
        \A v \in fleetAdded :
            \E k \in 1..Len(fleetResp[1]) :
                /\ fleetResp[1][k].vehicle_id.text = v.vehicle_id
                /\ fleetResp[1][k].type.text = v.type
                /\ fleetResp[1][k].capacity.text = CapText(v.capacity)
                /\ fleetResp[1][k].status.text = v.status

\* C8: a /fleet listing of a missing file or of a file without rows is one
\* record, V-MOCK-1, holding the five orders ORD-991..ORD-995.
C8_MockOnNoRows ==
    fleetResp # <<>> /\ fleetNoRows =>
        /\ Len(fleetResp[1]) = 1
        /\ fleetResp[1][1].vehicle_id = JsonString("V-MOCK-1")
        /\ fleetResp[1][1].assigned_orders =
              <<"ORD-991", "ORD-992", "ORD-993", "ORD-994", "ORD-995">>

-----------------------------------------------------------------------------
(* Claim about the middleware stack, checked under SpecMiddleware          *)

\* C9: every response sent to a request that carries an Origin header has the
\* cross-origin headers (Access-Control-Allow-Origin and
\* Access-Control-Allow-Credentials: true) and
\* Access-Control-Allow-Private-Network: true.
C9_HeadersOnEveryResponse ==
    mwPc = "sent" /\ mwReq.origin =>
        /\ \E h \in mwResp.headers : h[1] = "access-control-allow-origin"
        /\ <<"access-control-allow-credentials", "true">> \in mwResp.headers
        /\ PrivateNetworkHeader \in mwResp.headers

====
